---- MODULE Spec2Model ----
(***************************************************************************)
(* A model of the NNTP client of src/client/client.go.                     *)
(*                                                                         *)
(* The caller drives one Client over one textproto.Conn.  Every blocking   *)
(* call of a method (a line written and flushed, a status line read, a     *)
(* dot-terminated block read) is one step; the server and the transport    *)
(* are the environment and choose what each read returns and whether each  *)
(* flush succeeds.  Text is a sequence of one-character strings, so that   *)
(* strings.Split and strconv.ParseInt are computed and not assumed.        *)
(***************************************************************************)
EXTENDS Integers, Sequences, FiniteSets, TLC

VARIABLES pc, Banner, buf, wire, werr, reads, ret, src, arg,
          headers, headerFull, ch, prod, served, dot

vars == <<pc, Banner, buf, wire, werr, reads, ret, src, arg,
          headers, headerFull, ch, prod, served, dot>>

\* the state of XOver and of its goroutine, and of the dot-block round trip
xvars == <<headers, headerFull, ch, prod, served, dot>>

(***************************************************************************)
(* Bounds of the model.                                                    *)
(***************************************************************************)
\* longest article handed to Post, in lines
MaxArticle == 2
\* largest number of space-separated fields in the text of a GROUP reply
MaxFields == 5
\* longest LIST block, in lines
MaxLines == 2

(***************************************************************************)
(* Text helpers.                                                           *)
(***************************************************************************)
Digits == <<"0", "1", "2", "3", "4", "5", "6", "7", "8", "9">>

IsDigit(c) == \E i \in 1..10 : Digits[i] = c

DigitVal(c) == (CHOOSE i \in 1..10 : Digits[i] = c) - 1

RECURSIVE Split(_, _)
\* strings.Split(s, sep) for a one-character sep: always at least one part
Split(s, sep) ==
    IF \A i \in 1..Len(s) : s[i] # sep
    THEN <<s>>
    ELSE LET i == CHOOSE k \in 1..Len(s) :
                      s[k] = sep /\ \A j \in 1..(k - 1) : s[j] # sep
         IN  <<SubSeq(s, 1, i - 1)>> \o Split(SubSeq(s, i + 1, Len(s)), sep)

RECURSIVE Join(_, _)
\* the text whose parts are fs, separated by sep
Join(fs, sep) ==
    IF Len(fs) = 0 THEN <<>>
    ELSE IF Len(fs) = 1 THEN fs[1]
    ELSE fs[1] \o <<sep>> \o Join(Tail(fs), sep)

RECURSIVE ParseUint(_, _)
\* the value of the decimal digits of s after the accumulator acc
ParseUint(s, acc) ==
    IF Len(s) = 0 THEN acc
    ELSE ParseUint(Tail(s), acc * 10 + DigitVal(s[1]))

\* strconv.ParseInt(s, 10, 64): an optional sign, then one or more digits.
\* The texts of the model stay far below 2^63, the range error is not reached.
ParseInt(s) ==
    LET signed == Len(s) > 0 /\ s[1] \in {"+", "-"}
        body   == IF signed THEN Tail(s) ELSE s
    IN  IF Len(body) = 0 \/ \E i \in 1..Len(body) : ~IsDigit(body[i])
        THEN [ok |-> FALSE, n |-> 0]
        ELSE [ok |-> TRUE,
              n  |-> IF signed /\ s[1] = "-" THEN 0 - ParseUint(body, 0)
                     ELSE ParseUint(body, 0)]

(***************************************************************************)
(* What the server can answer to a status read.                            *)
(***************************************************************************)
NoText == <<>>

IOErr == [kind |-> "ioerr", code |-> 0, cont |-> FALSE, msg |-> NoText]

Malformed == [kind |-> "malformed", code |-> 0, cont |-> FALSE, msg |-> NoText]

Status(code, cont, msg) ==
    [kind |-> "status", code |-> code, cont |-> cont, msg |-> msg]

\* what a status read can meet: the transport fails, the line is no status
\* line, or a status line arrives, as a single line ("211 text") or as the
\* first line of a multi-line reply ("211-text")
Replies(codes, msgs) ==
    {IOErr, Malformed}
        \cup {Status(c, k, m) : c \in codes, k \in BOOLEAN, m \in msgs}

SomeCodes == {200, 201, 211, 215, 240, 281, 340, 381, 440, 502}

OkText == <<"o", "k">>

PlainReplies == Replies(SomeCodes, {OkText})

(***************************************************************************)
(* textproto.Reader.ReadCodeLine as the client uses it.                    *)
(***************************************************************************)
\* ExpectOK with the class of a code taken from its first two digits
ExpectOK_TwoDigitClass(expectCode, code) ==
    ~ \/ (1 <= expectCode /\ expectCode < 10 /\ code \div 10 # expectCode)
      \/ (10 <= expectCode /\ expectCode < 100 /\ code \div 10 # expectCode)
      \/ (100 <= expectCode /\ expectCode < 1000 /\ code # expectCode)

\* the check of a received code against expectCode
ExpectOK(expectCode, code) ==
    ~ \/ (1 <= expectCode /\ expectCode < 10 /\ code \div 100 # expectCode)
      \/ (10 <= expectCode /\ expectCode < 100 /\ code \div 10 # expectCode)
      \/ (100 <= expectCode /\ expectCode < 1000 /\ code # expectCode)

\* the error ReadCodeLine(expectCode) returns for a reply
ReadCodeLine(expectCode, reply) ==
    CASE reply.kind = "ioerr" -> "io"
      [] reply.kind = "malformed" -> "proto"
      [] OTHER -> IF ~ExpectOK(expectCode, reply.code) THEN "status"
                  ELSE IF reply.cont THEN "proto"
                  ELSE "nil"

(***************************************************************************)
(* textproto.Writer over a bufio.Writer: PrintfLine buffers the line and   *)
(* flushes; a failed flush leaves a sticky error in the bufio.Writer.      *)
(***************************************************************************)
Cmd(verb, text) == [k |-> "cmd", v |-> verb, a |-> text]

Data(line) == [k |-> "data", v |-> "", a |-> line]

Term == [k |-> "term", v |-> "", a |-> NoText]

\* PrintfLine succeeds when no earlier write failed and its flush succeeds
Sent(ok) == ~werr /\ ok

\* sofar is what the current call has put on the wire before this line
PrintfLine(sofar, line, ok) ==
    IF werr
    THEN wire' = sofar /\ UNCHANGED <<buf, werr>>
    ELSE IF ok
         THEN wire' = sofar \o buf \o <<line>> /\ buf' = <<>> /\ werr' = FALSE
         ELSE wire' = sofar /\ buf' = buf \o <<line>> /\ werr' = TRUE

(***************************************************************************)
(* The result of a call.                                                   *)
(***************************************************************************)
NoGroups == <<>>

Result(op, err, line, msg, rv) ==
    [op |-> op, err |-> err, line |-> line, msg |-> msg, rv |-> rv]

NoResult == Result("", "", 0, NoText, NoGroups)

Fail(op, err, line) == Result(op, err, line, NoText, NoGroups)

\* the arguments of the call in progress that its later steps use
Arg(text, n) == [s |-> text, n |-> n]

NoArg == Arg(NoText, 0)

\* no channel yet: state is "none", "open" or "closed"; recv is what the
\* consumer has received, eof whether it has seen the channel closed, closes
\* how often the channel was closed, made how many goroutines the XOver call
\* in progress (or the last one) has started
NoChan ==
    [state |-> "none", recv |-> <<>>, eof |-> FALSE, closes |-> 0, made |-> 0]

\* an Overview: Headers maps header names to values, Err is "nil" or an error
Overview(hdrs, err) == [Headers |-> hdrs, Err |-> err]

NoHeaders == {}

\* the goroutine of XOver: its position, the lines its scanner has read and
\* not yet returned (sbuf), what the last read said of the stream (st: "more",
\* "end" or "err"), and the Overview it is sending
Producer(at, sbuf, st, item) ==
    [pc |-> at, sbuf |-> sbuf, st |-> st, item |-> item]

NoProducer == Producer("none", <<>>, "more", Overview(NoHeaders, "nil"))

\* the dot-block round trip: the body written, the bytes on the wire, the
\* bytes read back and the bytes left unread
DotState(at, body, bytes, out, rest) ==
    [pc |-> at, body |-> body, bytes |-> bytes, out |-> out, rest |-> rest]

NoDot == DotState("none", NoText, NoText, NoText, NoText)

TypeOK ==
    /\ pc \in STRING
    /\ werr \in BOOLEAN

Init ==
    /\ pc = "start"
    /\ Banner = NoText
    /\ buf = <<>>
    /\ wire = <<>>
    /\ werr = FALSE
    /\ reads = <<>>
    /\ ret = NoResult
    /\ src = <<>>
    /\ arg = NoArg
    /\ headers = <<>>
    /\ headerFull = {}
    /\ ch = NoChan
    /\ prod = NoProducer
    /\ served = <<>>
    /\ dot = NoDot

(***************************************************************************)
(* New                                                                     *)
(***************************************************************************)
Greetings == {<<"h", "i">>, OkText}

New(dialOK, reply) ==
    /\ pc = "start"
    /\ buf' = <<>> /\ wire' = <<>> /\ werr' = FALSE /\ src' = <<>>
    /\ arg' = NoArg
    /\ IF ~dialOK
       THEN /\ reads' = <<>>
            /\ ret' = Fail("New", "io", 27)
            /\ UNCHANGED <<pc, Banner>>
       ELSE /\ reads' = <<reply>>
            /\ IF ReadCodeLine(200, reply) # "nil"
               THEN /\ ret' = Fail("New", ReadCodeLine(200, reply), 32)
                    /\ UNCHANGED <<pc, Banner>>
               ELSE /\ ret' = Result("New", "nil", 35, NoText, NoGroups)
                    /\ Banner' = reply.msg
                    /\ pc' = "ready"
    /\ UNCHANGED xvars

\* Close: the session ends, a later New makes another Client
Close ==
    /\ pc = "ready"
    /\ pc' = "start"
    /\ Banner' = NoText
    /\ buf' = <<>> /\ wire' = <<>> /\ werr' = FALSE
    /\ reads' = <<>> /\ src' = <<>> /\ arg' = NoArg
    /\ ret' = Result("Close", "nil", 43, NoText, NoGroups)
    /\ UNCHANGED xvars

(***************************************************************************)
(* Authenticate                                                            *)
(***************************************************************************)
Users == {<<"b", "o", "b">>}

Passwords == {<<"p", "w">>}

AuthSendUser(user, pass, ok) ==
    /\ pc = "ready"
    /\ PrintfLine(<<>>, Cmd("authinfo user", user), ok)
    /\ reads' = <<>>
    /\ src' = <<>>
    /\ arg' = Arg(pass, 0)
    /\ IF Sent(ok)
       THEN pc' = "auth381" /\ ret' = NoResult
       ELSE pc' = "ready" /\ ret' = Fail("Authenticate", "io", 50)
    /\ UNCHANGED Banner
    /\ UNCHANGED xvars

\* AuthRead381 without the check of the error of ReadCodeLine(381)
AuthRead381_Unchecked(reply) ==
    /\ pc = "auth381"
    /\ reads' = Append(reads, reply)
    /\ pc' = "authpass"
    /\ UNCHANGED <<Banner, buf, wire, werr, src, arg, ret>>
    /\ UNCHANGED xvars

AuthRead381(reply) ==
    /\ pc = "auth381"
    /\ reads' = Append(reads, reply)
    /\ IF ReadCodeLine(381, reply) # "nil"
       THEN /\ pc' = "ready"
            /\ ret' = Fail("Authenticate", ReadCodeLine(381, reply), 54)
       ELSE pc' = "authpass" /\ UNCHANGED ret
    /\ UNCHANGED <<Banner, buf, wire, werr, src, arg>>
    /\ UNCHANGED xvars

AuthSendPass(ok) ==
    /\ pc = "authpass"
    /\ PrintfLine(wire, Cmd("authinfo pass", arg.s), ok)
    /\ IF Sent(ok)
       THEN pc' = "auth281" /\ UNCHANGED ret
       ELSE pc' = "ready" /\ ret' = Fail("Authenticate", "io", 59)
    /\ UNCHANGED <<Banner, reads, src, arg>>
    /\ UNCHANGED xvars

AuthRead281(reply) ==
    /\ pc = "auth281"
    /\ reads' = Append(reads, reply)
    /\ pc' = "ready"
    /\ ret' = Result("Authenticate", ReadCodeLine(281, reply), 62,
                     IF reply.kind = "status" THEN reply.msg ELSE NoText,
                     NoGroups)
    /\ UNCHANGED <<Banner, buf, wire, werr, src, arg>>
    /\ UNCHANGED xvars

(***************************************************************************)
(* Command                                                                 *)
(***************************************************************************)
CmdText == <<"D", "A", "T", "E">>

\* the expectations a caller passes: none, a class, a two-digit prefix, a code
ExpectCodes == {-1} \cup 1..9 \cup {21} \cup {100, 200, 201, 211, 299, 300, 599}

CommandSend(cmd, expectCode, ok) ==
    /\ pc = "ready"
    /\ PrintfLine(<<>>, Cmd("", cmd), ok)
    /\ reads' = <<>>
    /\ src' = <<>>
    /\ arg' = Arg(cmd, expectCode)
    /\ IF Sent(ok)
       THEN pc' = "command" /\ ret' = NoResult
       ELSE pc' = "ready" /\ ret' = Fail("Command", "io", 283)
    /\ UNCHANGED Banner
    /\ UNCHANGED xvars

CommandRead(reply) ==
    /\ pc = "command"
    /\ reads' = Append(reads, reply)
    /\ pc' = "ready"
    /\ ret' = Result("Command", ReadCodeLine(arg.n, reply), 285,
                     IF reply.kind = "status" THEN reply.msg ELSE NoText,
                     NoGroups)
    /\ UNCHANGED <<Banner, buf, wire, werr, src, arg>>
    /\ UNCHANGED xvars

(***************************************************************************)
(* Post                                                                    *)
(***************************************************************************)
\* what a server answers to POST and to an article
PostReplies == Replies({240, 340, 440}, {OkText})

ArticleLines == {<<"a">>, <<".">>, <<".", "a">>}

Articles == UNION {[1..n -> ArticleLines] : n \in 0..MaxArticle}

\* the dot-writer doubles the dot of a line that begins with one
DotStuff(line) ==
    IF Len(line) > 0 /\ line[1] = "." THEN <<".">> \o line ELSE line

\* r hands over the lines of article and then ends (rfail = FALSE) or fails
PostSend(article, rfail, ok) ==
    /\ pc = "ready"
    /\ PrintfLine(<<>>, Cmd("POST", NoText), ok)
    /\ reads' = <<>>
    /\ src' = article
    /\ arg' = Arg(NoText, IF rfail THEN 1 ELSE 0)
    /\ IF Sent(ok)
       THEN pc' = "post340" /\ ret' = NoResult
       ELSE pc' = "ready" /\ ret' = Fail("Post", "io", 256)
    /\ UNCHANGED Banner
    /\ UNCHANGED xvars

\* PostRead340 without the check of the error of ReadCodeLine(340)
PostRead340_Unchecked(reply) ==
    /\ pc = "post340"
    /\ reads' = Append(reads, reply)
    /\ pc' = "postcopy"
    /\ UNCHANGED <<Banner, buf, wire, werr, src, arg, ret>>
    /\ UNCHANGED xvars

PostRead340(reply) ==
    /\ pc = "post340"
    /\ reads' = Append(reads, reply)
    /\ IF ReadCodeLine(340, reply) # "nil"
       THEN /\ pc' = "ready"
            /\ ret' = Fail("Post", ReadCodeLine(340, reply), 260)
       ELSE pc' = "postcopy" /\ UNCHANGED ret
    /\ UNCHANGED <<Banner, buf, wire, werr, src, arg>>
    /\ UNCHANGED xvars

\* PostCopy that drops the error of io.Copy and goes on to w.Close()
PostCopy_ErrorDropped(full, ok) ==
    /\ pc = "postcopy"
    /\ IF Len(src) = 0
       THEN /\ pc' = "postclose"
            /\ UNCHANGED <<buf, wire, werr, src, ret>>
       ELSE /\ src' = Tail(src)
            /\ UNCHANGED ret
            /\ IF ~full
               THEN /\ buf' = Append(buf, Data(DotStuff(Head(src))))
                    /\ UNCHANGED <<wire, werr, pc>>
               ELSE IF ok
               THEN /\ wire' = wire \o buf \o <<Data(DotStuff(Head(src)))>>
                    /\ buf' = <<>>
                    /\ UNCHANGED <<werr, pc>>
               ELSE /\ buf' = Append(buf, Data(DotStuff(Head(src))))
                    /\ werr' = TRUE
                    /\ pc' = "postclose"
                    /\ UNCHANGED wire
    /\ UNCHANGED <<Banner, reads, arg>>
    /\ UNCHANGED xvars

\* one round of io.Copy: r is at its end, or fails, or hands over a line,
\* which the dot-writer puts in the buffer; a full buffer (full) is flushed
\* to the transport, which succeeds or not (ok)
PostCopy(full, ok) ==
    /\ pc = "postcopy"
    /\ IF Len(src) = 0
       THEN /\ IF arg.n = 1
               THEN pc' = "ready" /\ ret' = Fail("Post", "io", 266)
               ELSE pc' = "postclose" /\ UNCHANGED ret
            /\ UNCHANGED <<buf, wire, werr, src>>
       ELSE /\ src' = Tail(src)
            /\ IF ~full
               THEN /\ buf' = Append(buf, Data(DotStuff(Head(src))))
                    /\ UNCHANGED <<wire, werr, pc, ret>>
               ELSE IF ok
               THEN /\ wire' = wire \o buf \o <<Data(DotStuff(Head(src)))>>
                    /\ buf' = <<>>
                    /\ UNCHANGED <<werr, pc, ret>>
               ELSE /\ buf' = Append(buf, Data(DotStuff(Head(src))))
                    /\ werr' = TRUE
                    /\ pc' = "ready"
                    /\ ret' = Fail("Post", "io", 266)
                    /\ UNCHANGED wire
    /\ UNCHANGED <<Banner, reads, arg>>
    /\ UNCHANGED xvars

\* w.Close(): the terminator is buffered and the buffer flushed; the error of
\* the flush is dropped
PostClose(ok) ==
    /\ pc = "postclose"
    /\ PrintfLine(wire, Term, ok)
    /\ pc' = "post240"
    /\ UNCHANGED <<Banner, reads, ret, src, arg>>
    /\ UNCHANGED xvars

PostRead240(reply) ==
    /\ pc = "post240"
    /\ reads' = Append(reads, reply)
    /\ pc' = "ready"
    /\ ret' = Fail("Post", ReadCodeLine(240, reply), 270)
    /\ UNCHANGED <<Banner, buf, wire, werr, src, arg>>
    /\ UNCHANGED xvars

(***************************************************************************)
(* Group                                                                   *)
(***************************************************************************)
NewGroup(name, count, high, low, posting) ==
    [Name |-> name, Count |-> count, High |-> high, Low |-> low,
     Posting |-> posting]

\* the zero value of nntp.Group
ZeroGroup == NewGroup(NoText, 0, 0, 0, "Unknown")

GroupFields == {<<"1">>, <<"1", "0">>, <<"-", "3">>, <<"g">>, <<>>}

\* every text of one to MaxFields fields separated by single spaces
GroupTexts ==
    {Join(fs, " ") : fs \in UNION {[1..n -> GroupFields] : n \in 1..MaxFields}}

GroupNames == {<<"g">>}

\* GroupParse with Low and High taken from each other's part
GroupParse_Swapped(msg) ==
    LET parts == Split(msg, " ")
        count == ParseInt(parts[1])
        high  == ParseInt(parts[2])
        low   == ParseInt(parts[3])
        rv1   == [ZeroGroup EXCEPT !.Count = count.n]
        rv2   == [rv1 EXCEPT !.High = high.n]
        rv3   == [rv2 EXCEPT !.Low = low.n]
        rv4   == [rv3 EXCEPT !.Name = parts[4]]
    IN  IF ~count.ok
        THEN [panic |-> FALSE, err |-> "parse", line |-> 117, rv |-> rv1]
        ELSE IF Len(parts) < 2
        THEN [panic |-> TRUE, err |-> "", line |-> 119, rv |-> rv1]
        ELSE IF ~high.ok
        THEN [panic |-> FALSE, err |-> "parse", line |-> 121, rv |-> rv2]
        ELSE IF Len(parts) < 3
        THEN [panic |-> TRUE, err |-> "", line |-> 123, rv |-> rv2]
        ELSE IF ~low.ok
        THEN [panic |-> FALSE, err |-> "parse", line |-> 125, rv |-> rv3]
        ELSE IF Len(parts) < 4
        THEN [panic |-> TRUE, err |-> "", line |-> 127, rv |-> rv3]
        ELSE [panic |-> FALSE, err |-> "nil", line |-> 129, rv |-> rv4]

\* lines 111-129 of Group for the text of a 211 reply: the error set for a
\* text that has not 4 parts is overwritten by the first ParseInt, and a
\* part that is not there is an index out of range
GroupParse(msg) ==
    LET parts == Split(msg, " ")
        count == ParseInt(parts[1])
        low   == ParseInt(parts[2])
        high  == ParseInt(parts[3])
        rv0   == ZeroGroup
        rv1   == [rv0 EXCEPT !.Count = count.n]
        rv2   == [rv1 EXCEPT !.Low = low.n]
        rv3   == [rv2 EXCEPT !.High = high.n]
        rv4   == [rv3 EXCEPT !.Name = parts[4]]
    IN  IF ~count.ok
        THEN [panic |-> FALSE, err |-> "parse", line |-> 117, rv |-> rv1]
        ELSE IF Len(parts) < 2
        THEN [panic |-> TRUE, err |-> "", line |-> 119, rv |-> rv1]
        ELSE IF ~low.ok
        THEN [panic |-> FALSE, err |-> "parse", line |-> 121, rv |-> rv2]
        ELSE IF Len(parts) < 3
        THEN [panic |-> TRUE, err |-> "", line |-> 123, rv |-> rv2]
        ELSE IF ~high.ok
        THEN [panic |-> FALSE, err |-> "parse", line |-> 125, rv |-> rv3]
        ELSE IF Len(parts) < 4
        THEN [panic |-> TRUE, err |-> "", line |-> 127, rv |-> rv3]
        ELSE [panic |-> FALSE, err |-> "nil", line |-> 129, rv |-> rv4]

GroupSend(name, ok) ==
    /\ pc = "ready"
    /\ PrintfLine(<<>>, Cmd("GROUP", name), ok)
    /\ reads' = <<>>
    /\ src' = <<>>
    /\ arg' = NoArg
    /\ IF Sent(ok)
       THEN pc' = "group211" /\ ret' = NoResult
       ELSE pc' = "ready" /\ ret' = Fail("Group", "io", 108)
    /\ UNCHANGED Banner
    /\ UNCHANGED xvars

GroupRead211(reply) ==
    /\ pc = "group211"
    /\ reads' = Append(reads, reply)
    /\ IF ReadCodeLine(211, reply) # "nil"
       THEN /\ pc' = "ready"
            /\ ret' = Fail("Group", ReadCodeLine(211, reply), 108)
       ELSE LET g == GroupParse(reply.msg)
            IN  /\ pc' = IF g.panic THEN "panic" ELSE "ready"
                /\ ret' = Result("Group", g.err, g.line, NoText, <<g.rv>>)
    /\ UNCHANGED <<Banner, buf, wire, werr, src, arg>>
    /\ UNCHANGED xvars

(***************************************************************************)
(* List                                                                    *)
(***************************************************************************)
parsePosting(p) ==
    CASE p = <<"y">> -> "PostingPermitted"
      [] p = <<"m">> -> "PostingModerated"
      [] OTHER -> "PostingNotPermitted"

\* the lines a server may put in the block of a LIST reply, as they are on
\* the wire: well-formed ones (the second of an empty group, whose high is
\* below its low), ones with a field that is no number, ones with fewer or
\* more than 4 fields, and one with a stuffed leading dot
ListWireLines ==
    { <<"a", " ", "2", " ", "1", " ", "y">>,
      <<"b", " ", "0", " ", "1", " ", "m">>,
      <<"c", " ", "x", " ", "1", " ", "y">>,
      <<"d", " ", "1", " ", "x", " ", "n">>,
      <<"e">>,
      <<"f", " ", "1">>,
      <<"g", " ", "2", " ", "1">>,
      <<"h", " ", "x", " ", "1">>,
      <<"i", " ", "2", " ", "1", " ", "y", " ", "z">>,
      <<".", ".", "j", " ", "3", " ", "3", " ", "q">> }

ListBlocks == UNION {[1..n -> ListWireLines] : n \in 0..MaxLines}

\* ReadDotLines takes the stuffed dot off each line of the block
DotUnstuff(line) ==
    IF Len(line) > 0 /\ line[1] = "." THEN Tail(line) ELSE line

ReadDotLines(block) == [i \in 1..Len(block) |-> DotUnstuff(block[i])]

RECURSIVE ListParse_Swapped(_, _)
\* ListParse with High and Low taken from each other's part
ListParse_Swapped(groupLines, rv) ==
    IF Len(groupLines) = 0 THEN [panic |-> FALSE, line |-> 100, rv |-> rv]
    ELSE LET parts == Split(Head(groupLines), " ")
             low   == ParseInt(parts[2])
             high  == ParseInt(parts[3])
         IN  IF Len(parts) < 2 THEN [panic |-> TRUE, line |-> 89, rv |-> rv]
             ELSE IF Len(parts) < 3 THEN [panic |-> TRUE, line |-> 90, rv |-> rv]
             ELSE IF high.ok /\ low.ok
             THEN IF Len(parts) < 4 THEN [panic |-> TRUE, line |-> 96, rv |-> rv]
                  ELSE ListParse_Swapped(Tail(groupLines),
                                 Append(rv, NewGroup(parts[1], 0, high.n, low.n,
                                                     parsePosting(parts[4]))))
             ELSE ListParse_Swapped(Tail(groupLines), rv)

RECURSIVE ListParse(_, _)
\* lines 87-99 of List over the lines left, rv being the groups so far
ListParse(groupLines, rv) ==
    IF Len(groupLines) = 0 THEN [panic |-> FALSE, line |-> 100, rv |-> rv]
    ELSE LET parts == Split(Head(groupLines), " ")
             high  == ParseInt(parts[2])
             low   == ParseInt(parts[3])
         IN  IF Len(parts) < 2 THEN [panic |-> TRUE, line |-> 89, rv |-> rv]
             ELSE IF Len(parts) < 3 THEN [panic |-> TRUE, line |-> 90, rv |-> rv]
             ELSE IF high.ok /\ low.ok
             THEN IF Len(parts) < 4 THEN [panic |-> TRUE, line |-> 96, rv |-> rv]
                  ELSE ListParse(Tail(groupLines),
                                 Append(rv, NewGroup(parts[1], 0, high.n, low.n,
                                                     parsePosting(parts[4]))))
             ELSE ListParse(Tail(groupLines), rv)

ListSubs == {<<"*">>}

ListSend(sub, ok) ==
    /\ pc = "ready"
    /\ PrintfLine(<<>>, Cmd("LIST", sub), ok)
    /\ reads' = <<>>
    /\ src' = <<>>
    /\ arg' = NoArg
    /\ IF Sent(ok)
       THEN pc' = "list215" /\ ret' = NoResult
       ELSE pc' = "ready" /\ ret' = Fail("List", "io", 79)
    /\ UNCHANGED Banner
    /\ UNCHANGED xvars

ListRead215(reply) ==
    /\ pc = "list215"
    /\ reads' = Append(reads, reply)
    /\ IF ReadCodeLine(215, reply) # "nil"
       THEN /\ pc' = "ready"
            /\ ret' = Fail("List", ReadCodeLine(215, reply), 79)
       ELSE pc' = "listlines" /\ UNCHANGED ret
    /\ UNCHANGED <<Banner, buf, wire, werr, src, arg>>
    /\ UNCHANGED xvars

\* the block is read to its terminator (readOK) or the read fails before it;
\* src keeps the lines that were read
ListReadDotLines(readOK, block) ==
    /\ pc = "listlines"
    /\ src' = ReadDotLines(block)
    /\ IF ~readOK
       THEN /\ pc' = "ready"
            /\ ret' = Fail("List", "io", 84)
       ELSE LET l == ListParse(ReadDotLines(block), NoGroups)
            IN  /\ pc' = IF l.panic THEN "panic" ELSE "ready"
                /\ ret' = Result("List", IF l.panic THEN "" ELSE "nil",
                                 l.line, NoText, l.rv)
    /\ UNCHANGED <<Banner, buf, wire, werr, reads, arg>>
    /\ UNCHANGED xvars

(***************************************************************************)
(* Article, Head, Body                                                     *)
(***************************************************************************)
\* largest number of space-separated fields in the text of an article reply
MaxParts == 3

\* strings.SplitN(s, sep, 2): s itself, or what is before and what is after
\* the first sep
SplitN2(s, sep) ==
    IF \A i \in 1..Len(s) : s[i] # sep
    THEN <<s>>
    ELSE LET i == CHOOSE k \in 1..Len(s) :
                      s[k] = sep /\ \A j \in 1..(k - 1) : s[j] # sep
         IN  <<SubSeq(s, 1, i - 1), SubSeq(s, i + 1, Len(s))>>

\* the three methods: the line each sends, the code it expects and the line
\* of its return when the command cannot be sent
ArticleMethods ==
    { [op |-> "Article", verb |-> "ARTICLE", code |-> 220, line |-> 136],
      [op |-> "Head", verb |-> "HEAD", code |-> 221, line |-> 145],
      [op |-> "Body", verb |-> "BODY", code |-> 222, line |-> 154] }

MethodOf(code) == CHOOSE m \in ArticleMethods : m.code = code

Specifiers == {<<"7">>}

ArticleTexts ==
    {Join(fs, " ") : fs \in UNION {[1..n -> GroupFields] : n \in 1..MaxParts}}

ArticleReplies == Replies({220, 221, 222, 430}, ArticleTexts)

\* lines 164-169 of articleish for the text of the expected reply: n is the
\* number, rest the text after it; a text without a space has no parts[1]
ArticleParse(msg) ==
    LET parts == SplitN2(msg, " ")
        n     == ParseInt(parts[1])
    IN  IF ~n.ok
        THEN [panic |-> FALSE, err |-> "parse", line |-> 167, n |-> 0,
              rest |-> NoText]
        ELSE IF Len(parts) < 2
        THEN [panic |-> TRUE, err |-> "", line |-> 169, n |-> n.n,
              rest |-> NoText]
        ELSE [panic |-> FALSE, err |-> "nil", line |-> 169, n |-> n.n,
              rest |-> parts[2]]

ArticleSend(m, specifier, ok) ==
    /\ pc = "ready"
    /\ PrintfLine(<<>>, Cmd(m.verb, specifier), ok)
    /\ reads' = <<>>
    /\ src' = <<>>
    /\ arg' = Arg(specifier, m.code)
    /\ IF Sent(ok)
       THEN pc' = "articleish" /\ ret' = NoResult
       ELSE pc' = "ready" /\ ret' = Fail(m.op, "io", m.line)
    /\ UNCHANGED Banner
    /\ UNCHANGED xvars

\* articleish(expected): on success the number is ret.rv[1], the rest of the
\* text ret.msg, and the reader is c.conn.DotReader()
ArticleRead(reply) ==
    /\ pc = "articleish"
    /\ reads' = Append(reads, reply)
    /\ IF ReadCodeLine(arg.n, reply) # "nil"
       THEN /\ pc' = "ready"
            /\ ret' = Fail(MethodOf(arg.n).op, ReadCodeLine(arg.n, reply), 162)
       ELSE LET a == ArticleParse(reply.msg)
            IN  /\ pc' = IF a.panic THEN "panic" ELSE "ready"
                /\ ret' = Result(MethodOf(arg.n).op, a.err, a.line, a.rest,
                                 IF a.err = "nil" THEN <<a.n>> ELSE <<>>)
    /\ UNCHANGED <<Banner, buf, wire, werr, src, arg>>
    /\ UNCHANGED xvars

(***************************************************************************)
(* XOver: the caller's part (lines 179-212 and 246)                        *)
(***************************************************************************)
\* largest number of lines in a LIST OVERVIEW.FMT block
MaxFmt == 2

\* largest number of overview lines the server sends in one stream
MaxOver == 2

ArticleCol == <<"A", "r", "t", "i", "c", "l", "e">>

FullFlag == <<"f", "u", "l", "l">>

\* lines of a LIST OVERVIEW.FMT block: a full column, a plain column, the
\* full column's name again with an empty flag, and a line without ":"
FmtLines ==
    { <<"S", ":", "f", "u", "l", "l">>,
      <<"b", ":">>,
      <<"S", ":">>,
      <<"x">> }

FmtBlocks == UNION {[1..n -> FmtLines] : n \in 0..MaxFmt}

XOverReplies == Replies({215, 224, 500}, {OkText})

RECURSIVE FmtParse_AllFull(_, _, _)
\* FmtParse taking every column for a full one
FmtParse_AllFull(ls, hs, hf) ==
    IF Len(ls) = 0 THEN [panic |-> FALSE, headers |-> hs, headerFull |-> hf]
    ELSE LET parts == SplitN2(Head(ls), ":")
             h     == parts[1]
         IN  IF Len(parts) < 2
             THEN [panic |-> TRUE, headers |-> hs, headerFull |-> hf]
             ELSE FmtParse_AllFull(Tail(ls), Append(hs, h), hf \cup {h})

RECURSIVE FmtParse(_, _, _)
\* lines 192-198 over the lines left: hs is headers, hf the names h with
\* headerFull[h] true (a name that is not in the map reads as false)
FmtParse(ls, hs, hf) ==
    IF Len(ls) = 0 THEN [panic |-> FALSE, headers |-> hs, headerFull |-> hf]
    ELSE LET parts == SplitN2(Head(ls), ":")
             h     == parts[1]
         IN  IF Len(parts) < 2
             THEN [panic |-> TRUE, headers |-> hs, headerFull |-> hf]
             ELSE FmtParse(Tail(ls), Append(hs, h),
                           IF parts[2] = FullFlag THEN hf \cup {h}
                                                  ELSE hf \ {h})

\* lines 180-187 with the PrintfLine of MultilineCommand (lines 289-292);
\* arg.n is 1 when compress is true
XOverSendFmt(specifier, compress, ok) ==
    /\ pc = "ready"
    /\ PrintfLine(<<>>, Cmd("LIST OVERVIEW.FMT", NoText), ok)
    /\ reads' = <<>>
    /\ src' = <<>>
    /\ arg' = Arg(specifier, IF compress THEN 1 ELSE 0)
    /\ headers' = <<ArticleCol>>
    /\ headerFull' = {}
    /\ ch' = NoChan
    /\ prod' = NoProducer
    /\ served' = <<>>
    /\ IF Sent(ok)
       THEN pc' = "xover215" /\ ret' = NoResult
       ELSE pc' = "ready" /\ ret' = Fail("XOver", "io", 189)
    /\ UNCHANGED <<Banner, dot>>

\* the ReadCodeLine of MultilineCommand (lines 293-296)
XOverRead215(reply) ==
    /\ pc = "xover215"
    /\ reads' = Append(reads, reply)
    /\ IF ReadCodeLine(215, reply) # "nil"
       THEN /\ pc' = "ready"
            /\ ret' = Fail("XOver", ReadCodeLine(215, reply), 189)
       ELSE pc' = "xoverfmt" /\ UNCHANGED ret
    /\ UNCHANGED <<Banner, buf, wire, werr, src, arg>>
    /\ UNCHANGED xvars

\* lines 297-300 and 188-198: src is the lines MultilineCommand returns, the
\* text of the status line and then the lines of the block
XOverReadFmtLines(readOK, block) ==
    /\ pc = "xoverfmt"
    /\ src' = <<reads[1].msg>> \o ReadDotLines(block)
    /\ IF ~readOK
       THEN /\ pc' = "ready"
            /\ ret' = Fail("XOver", "io", 189)
            /\ UNCHANGED <<headers, headerFull>>
       ELSE LET f == FmtParse(ReadDotLines(block), headers, headerFull)
            IN  /\ headers' = f.headers
                /\ headerFull' = f.headerFull
                /\ IF f.panic
                   THEN pc' = "panic" /\ ret' = Fail("XOver", "", 195)
                   ELSE pc' = "xoversend" /\ UNCHANGED ret
    /\ UNCHANGED <<Banner, buf, wire, werr, reads, arg>>
    /\ UNCHANGED <<ch, prod, served, dot>>

\* lines 203-205
XOverSendRange(ok) ==
    /\ pc = "xoversend"
    /\ PrintfLine(wire, Cmd(IF arg.n = 1 THEN "XZVER" ELSE "XOVER", arg.s), ok)
    /\ IF Sent(ok)
       THEN pc' = "xover224" /\ UNCHANGED ret
       ELSE pc' = "ready" /\ ret' = Fail("XOver", "io", 204)
    /\ UNCHANGED <<Banner, reads, src, arg>>
    /\ UNCHANGED xvars

\* XOverRead224 that starts the goroutine whatever the status line is
XOverRead224_Unchecked(reply) ==
    /\ pc = "xover224"
    /\ reads' = Append(reads, reply)
    /\ pc' = "ready"
    /\ ret' = Result("XOver", "nil", 246, NoText, NoGroups)
    /\ ch' = [state |-> "open", recv |-> <<>>, eof |-> FALSE,
              closes |-> 0, made |-> ch.made + 1]
    /\ prod' = Producer(IF arg.n = 1 THEN "zinit" ELSE "scan", <<>>,
                        "more", Overview(NoHeaders, "nil"))
    /\ UNCHANGED <<Banner, buf, wire, werr, src, arg>>
    /\ UNCHANGED <<headers, headerFull, served, dot>>

\* lines 206-213 and 246: the channel is made and the goroutine started
XOverRead224(reply) ==
    /\ pc = "xover224"
    /\ reads' = Append(reads, reply)
    /\ pc' = "ready"
    /\ IF ReadCodeLine(224, reply) # "nil"
       THEN /\ ret' = Fail("XOver", ReadCodeLine(224, reply), 207)
            /\ UNCHANGED <<ch, prod>>
       ELSE /\ ret' = Result("XOver", "nil", 246, NoText, NoGroups)
            /\ ch' = [state |-> "open", recv |-> <<>>, eof |-> FALSE,
                      closes |-> 0, made |-> ch.made + 1]
            /\ prod' = Producer(IF arg.n = 1 THEN "zinit" ELSE "scan", <<>>,
                                "more", Overview(NoHeaders, "nil"))
    /\ UNCHANGED <<Banner, buf, wire, werr, src, arg>>
    /\ UNCHANGED <<headers, headerFull, served, dot>>

(***************************************************************************)
(* XOver: the goroutine (lines 213-245) and the receiver of the channel    *)
(***************************************************************************)
\* overview lines the server sends: one field, two fields the second with
\* two ":", two fields without ":", three fields, four fields
OverLines ==
    { <<"1">>,
      <<"2", "\t", "s", ":", "h", ":", "i">>,
      <<"3", "\t", "h">>,
      <<"4", "\t", "s", ":", "h", "\t", "9">>,
      <<"5", "\t", "s", ":", "h", "\t", "9", "\t", "z">> }

\* what one read of the scanner brings: at most two whole lines
Chunks == UNION {[1..n -> OverLines] : n \in 0..2}

Letters ==
    { <<"a", "A">>, <<"b", "B">>, <<"c", "C">>, <<"e", "E">>, <<"i", "I">>,
      <<"l", "L">>, <<"r", "R">>, <<"s", "S">>, <<"t", "T">>, <<"x", "X">> }

Upper(c) ==
    IF \E p \in Letters : p[1] = c
    THEN (CHOOSE p \in Letters : p[1] = c)[2] ELSE c

Lower(c) ==
    IF \E p \in Letters : p[2] = c
    THEN (CHOOSE p \in Letters : p[2] = c)[1] ELSE c

\* textproto.CanonicalMIMEHeaderKey, which MIMEHeader.Set applies to the key:
\* a key with a space or another byte that no header name has is left alone
Canon(h) ==
    IF \E i \in 1..Len(h) : h[i] \in {" ", ":", "\t"}
    THEN h
    ELSE [i \in 1..Len(h) |->
              IF i = 1 \/ h[i - 1] = "-" THEN Upper(h[i]) ELSE Lower(h[i])]

\* MIMEHeader.Set(key, value) on a header kept as the set of its
\* <<key, value>> pairs
Set(hdrs, key, value) ==
    {p \in hdrs : p[1] # Canon(key)} \cup {<<Canon(key), value>>}

RECURSIVE DecodeFields(_, _, _, _, _)
\* lines 232-239 from the i-th field on
DecodeFields(hs, hf, vals, i, hdrs) ==
    IF i > Len(vals) THEN [panic |-> FALSE, line |-> 240, hdrs |-> hdrs]
    ELSE IF i > Len(hs) THEN [panic |-> TRUE, line |-> 233, hdrs |-> hdrs]
    ELSE LET h     == hs[i]
             parts == SplitN2(vals[i], ":")
         IN  IF h \in hf /\ Len(parts) < 2
             THEN [panic |-> TRUE, line |-> 236, hdrs |-> hdrs]
             ELSE DecodeFields(hs, hf, vals, i + 1,
                               Set(hdrs, h,
                                   IF h \in hf THEN parts[2] ELSE vals[i]))

\* lines 230-239 for the line l
Decode(hs, hf, l) == DecodeFields(hs, hf, Split(l, "\t"), 1, NoHeaders)

\* lines 216-226 when compress is true: zlib.NewReader reads the header of
\* the stream from the connection
ProducerZlibInit(ok) ==
    /\ pc # "panic"
    /\ prod.pc = "zinit"
    /\ prod' = IF ok THEN [prod EXCEPT !.pc = "scan"]
               ELSE [prod EXCEPT !.pc = "senderr",
                                 !.item = Overview(NoHeaders, "zlib")]
    /\ UNCHANGED <<pc, Banner, buf, wire, werr, reads, ret, src, arg>>
    /\ UNCHANGED <<headers, headerFull, ch, served, dot>>

\* ProducerRead that also reads while the goroutine waits at ch <- o
ProducerRead_WhileBlocked(chunk, st) ==
    /\ pc # "panic"
    /\ prod.pc \in {"scan", "send"}
    /\ prod.sbuf = <<>>
    /\ prod.st = "more"
    /\ Len(served) + Len(chunk) <= MaxOver
    /\ st = "more" => chunk # <<>>
    /\ served' = served \o chunk
    /\ prod' = [prod EXCEPT !.sbuf = chunk, !.st = st]
    /\ UNCHANGED <<pc, Banner, buf, wire, werr, reads, ret, src, arg>>
    /\ UNCHANGED <<headers, headerFull, ch, dot>>

\* scanner.Scan() with no whole line left in its buffer reads from r: chunk
\* is the lines that arrive, and st tells whether the block goes on, has
\* reached its end, or the read has failed
ProducerRead(chunk, st) ==
    /\ pc # "panic"
    /\ prod.pc = "scan"
    /\ prod.sbuf = <<>>
    /\ prod.st = "more"
    /\ Len(served) + Len(chunk) <= MaxOver
    /\ st = "more" => chunk # <<>>
    /\ served' = served \o chunk
    /\ prod' = [prod EXCEPT !.sbuf = chunk, !.st = st]
    /\ UNCHANGED <<pc, Banner, buf, wire, werr, reads, ret, src, arg>>
    /\ UNCHANGED <<headers, headerFull, ch, dot>>

\* ProducerDecode taking the last line of the scanner's buffer first
ProducerDecode_LastFirst ==
    /\ pc # "panic"
    /\ prod.pc = "scan"
    /\ prod.sbuf # <<>>
    /\ LET d == Decode(headers, headerFull, prod.sbuf[Len(prod.sbuf)])
       IN  IF d.panic
           THEN /\ prod' = [prod EXCEPT !.pc = "panicking"]
                /\ ch' = [ch EXCEPT !.state = "closed",
                                    !.closes = ch.closes + 1]
           ELSE /\ prod' = [prod EXCEPT !.pc = "send",
                                        !.sbuf = SubSeq(prod.sbuf, 1,
                                                        Len(prod.sbuf) - 1),
                                        !.item = Overview(d.hdrs, "nil")]
                /\ UNCHANGED ch
    /\ UNCHANGED <<pc, Banner, buf, wire, werr, reads, ret, src, arg>>
    /\ UNCHANGED <<headers, headerFull, served, dot>>

\* lines 229-239 for the next line of the scanner; an index out of range
\* unwinds the goroutine, whose deferred close(ch) runs
ProducerDecode ==
    /\ pc # "panic"
    /\ prod.pc = "scan"
    /\ prod.sbuf # <<>>
    /\ LET d == Decode(headers, headerFull, Head(prod.sbuf))
       IN  IF d.panic
           THEN /\ prod' = [prod EXCEPT !.pc = "panicking"]
                /\ ch' = [ch EXCEPT !.state = "closed",
                                    !.closes = ch.closes + 1]
           ELSE /\ prod' = [prod EXCEPT !.pc = "send",
                                        !.sbuf = Tail(prod.sbuf),
                                        !.item = Overview(d.hdrs, "nil")]
                /\ UNCHANGED ch
    /\ UNCHANGED <<pc, Banner, buf, wire, werr, reads, ret, src, arg>>
    /\ UNCHANGED <<headers, headerFull, served, dot>>

\* the panic of the goroutine ends the program
ProducerCrash ==
    /\ pc # "panic"
    /\ prod.pc = "panicking"
    /\ pc' = "panic"
    /\ prod' = [prod EXCEPT !.pc = "dead"]
    /\ UNCHANGED <<Banner, buf, wire, werr, reads, ret, src, arg>>
    /\ UNCHANGED <<headers, headerFull, ch, served, dot>>

\* scanner.Scan() returns false, lines 242-244
ProducerEnd ==
    /\ pc # "panic"
    /\ prod.pc = "scan"
    /\ prod.sbuf = <<>>
    /\ prod.st # "more"
    /\ prod' = IF prod.st = "err"
               THEN [prod EXCEPT !.pc = "senderr",
                                 !.item = Overview(NoHeaders, "read")]
               ELSE [prod EXCEPT !.pc = "closing"]
    /\ UNCHANGED <<pc, Banner, buf, wire, werr, reads, ret, src, arg>>
    /\ UNCHANGED <<headers, headerFull, ch, served, dot>>

\* ProducerClose after which the goroutine goes on reading
ProducerClose_KeepsReading ==
    /\ pc # "panic"
    /\ prod.pc = "closing"
    /\ ch' = [ch EXCEPT !.state = "closed", !.closes = ch.closes + 1]
    /\ prod' = [prod EXCEPT !.pc = "scan", !.st = "more"]
    /\ UNCHANGED <<pc, Banner, buf, wire, werr, reads, ret, src, arg>>
    /\ UNCHANGED <<headers, headerFull, served, dot>>

\* the goroutine returns: the deferred close(ch) of line 214
ProducerClose ==
    /\ pc # "panic"
    /\ prod.pc = "closing"
    /\ ch' = [ch EXCEPT !.state = "closed", !.closes = ch.closes + 1]
    /\ prod' = [prod EXCEPT !.pc = "done"]
    /\ UNCHANGED <<pc, Banner, buf, wire, werr, reads, ret, src, arg>>
    /\ UNCHANGED <<headers, headerFull, served, dot>>

\* the caller receives from the channel: the item of a goroutine blocked at
\* ch <- (lines 219, 240, 243), or the end of a closed channel
Recv ==
    /\ pc = "ready"
    /\ ~ch.eof
    /\ \/ /\ ch.state = "open"
          /\ prod.pc \in {"send", "senderr"}
          /\ ch' = [ch EXCEPT !.recv = Append(ch.recv, prod.item)]
          /\ prod' = [prod EXCEPT
                          !.pc = IF prod.pc = "send" THEN "scan" ELSE "closing"]
       \/ /\ ch.state = "closed"
          /\ ch' = [ch EXCEPT !.eof = TRUE]
          /\ UNCHANGED prod
    /\ UNCHANGED <<pc, Banner, buf, wire, werr, reads, ret, src, arg>>
    /\ UNCHANGED <<headers, headerFull, served, dot>>

(***************************************************************************)
(* The dot-block writer of Post (c.conn.DotWriter(), lines 262-268) and    *)
(* the dot-block reader of articleish (c.conn.DotReader(), line 169), byte *)
(* by byte                                                                 *)
(***************************************************************************)
\* largest number of lines in a body
MaxBody == 2

\* largest number of bytes in a line of a body
MaxLineLen == 2

BodyLines == UNION {[1..n -> {"a", "."}] : n \in 0..MaxLineLen}

Bodies == UNION {[1..n -> BodyLines] : n \in 0..MaxBody}

CRLF == <<"\r", "\n">>

LineEnds == {<<"\n">>, CRLF}

\* what the server sends after the block
AfterBlock == {NoText, <<"2">>}

\* the state a dot-writer starts in: wstateBegin, or wstateBeginLine in a
\* library that has no wstateBegin
WriterStarts == {"Begin", "BeginLine"}

RECURSIVE BytesOf(_, _, _)
\* the bytes r hands to io.Copy for the lines of a body: eol after every
\* line, but none after the last line when open
BytesOf(ls, eol, open) ==
    IF Len(ls) = 0 THEN NoText
    ELSE IF Len(ls) = 1 /\ open THEN Head(ls)
    ELSE Head(ls) \o eol \o BytesOf(Tail(ls), eol, open)

RECURSIVE DotWriteBytes_NoStuffing(_, _, _)
\* DotWriteBytes without the second dot before a line's first
DotWriteBytes_NoStuffing(b, st, acc) ==
    IF Len(b) = 0 THEN [st |-> st, bytes |-> acc]
    ELSE LET c == Head(b)
         IN  IF st = "CR"
             THEN DotWriteBytes_NoStuffing(Tail(b),
                                IF c = "\n" THEN "BeginLine" ELSE "Data",
                                Append(acc, c))
             ELSE DotWriteBytes_NoStuffing(Tail(b),
                                IF c = "\n" THEN "BeginLine"
                                ELSE IF c = "\r" THEN "CR" ELSE "Data",
                                acc \o (IF c = "\n" THEN <<"\r">> ELSE <<>>)
                                    \o <<c>>)

RECURSIVE DotWriteBytes(_, _, _)
\* dotWriter.Write over the bytes b from the state st, acc being the bytes
\* written so far
DotWriteBytes(b, st, acc) ==
    IF Len(b) = 0 THEN [st |-> st, bytes |-> acc]
    ELSE LET c == Head(b)
         IN  IF st = "CR"
             THEN DotWriteBytes(Tail(b),
                                IF c = "\n" THEN "BeginLine" ELSE "Data",
                                Append(acc, c))
             ELSE DotWriteBytes(Tail(b),
                                IF c = "\n" THEN "BeginLine"
                                ELSE IF c = "\r" THEN "CR" ELSE "Data",
                                acc \o (IF st \in {"Begin", "BeginLine"} /\ c = "."
                                        THEN <<".">> ELSE <<>>)
                                    \o (IF c = "\n" THEN <<"\r">> ELSE <<>>)
                                    \o <<c>>)

\* dotWriter.Close in the state st
DotClose(st) ==
    IF st = "BeginLine" THEN <<".">> \o CRLF
    ELSE IF st = "CR" THEN <<"\n", ".">> \o CRLF
    ELSE CRLF \o <<".">> \o CRLF

\* io.Copy(w, r) and w.Close() for the bytes b
DotWriter(b, start) ==
    LET w == DotWriteBytes(b, start, NoText) IN w.bytes \o DotClose(w.st)

RECURSIVE DotReadBytes(_, _, _)
\* dotReader.Read to its end over the bytes b of the connection, from the
\* state st: out is what it returns, left what it has not taken
DotReadBytes(b, st, out) ==
    IF st = "EOF" THEN [err |-> "nil", out |-> out, left |-> b]
    ELSE IF Len(b) = 0 THEN [err |-> "unexpected EOF", out |-> out, left |-> b]
    ELSE LET c == Head(b)
         IN  CASE st = "BeginLine" ->
                      IF c = "." THEN DotReadBytes(Tail(b), "Dot", out)
                      ELSE IF c = "\r" THEN DotReadBytes(Tail(b), "CR", out)
                      ELSE DotReadBytes(Tail(b), "Data", Append(out, c))
               [] st = "Dot" ->
                      IF c = "\r" THEN DotReadBytes(Tail(b), "DotCR", out)
                      ELSE IF c = "\n" THEN DotReadBytes(Tail(b), "EOF", out)
                      ELSE DotReadBytes(Tail(b), "Data", Append(out, c))
               [] st = "DotCR" ->
                      IF c = "\n" THEN DotReadBytes(Tail(b), "EOF", out)
                      ELSE DotReadBytes(b, "Data", Append(out, "\r"))
               [] st = "CR" ->
                      IF c = "\n"
                      THEN DotReadBytes(Tail(b), "BeginLine", Append(out, c))
                      ELSE DotReadBytes(b, "Data", Append(out, "\r"))
               [] OTHER ->
                      IF c = "\r" THEN DotReadBytes(Tail(b), "CR", out)
                      ELSE DotReadBytes(Tail(b),
                                        IF c = "\n" THEN "BeginLine" ELSE "Data",
                                        Append(out, c))

DotReader(b) == DotReadBytes(b, "BeginLine", NoText)

\* a body is written as Post writes it; the server's bytes after the block
\* follow it on the connection
DotWrite(body, eol, open, start, rest) ==
    /\ dot.pc = "none"
    /\ open => (Len(body) > 0 /\ Len(body[Len(body)]) > 0)
    /\ dot' = DotState("written", body,
                       DotWriter(BytesOf(body, eol, open), start) \o rest,
                       NoText, rest)
    /\ UNCHANGED <<pc, Banner, buf, wire, werr, reads, ret, src, arg>>
    /\ UNCHANGED <<headers, headerFull, ch, prod, served>>

\* the block is read as the reader of Article, Head and Body reads it, to
\* its end
DotRead ==
    /\ dot.pc = "written"
    /\ LET r == DotReader(dot.bytes)
       IN  dot' = [dot EXCEPT !.pc = "read", !.out = r.out, !.bytes = r.left]
    /\ UNCHANGED <<pc, Banner, buf, wire, werr, reads, ret, src, arg>>
    /\ UNCHANGED <<headers, headerFull, ch, prod, served>>

(***************************************************************************)
(* The specifications: Next is a caller that uses every operation; the     *)
(* others are callers that keep to one operation of a session.             *)
(***************************************************************************)
Session ==
    \/ pc = "start" /\ \E d \in BOOLEAN, r \in Replies(SomeCodes, Greetings) :
                           New(d, r)
    \/ Close

Authenticate ==
    \/ pc = "ready" /\ \E u \in Users, p \in Passwords, ok \in BOOLEAN :
                           AuthSendUser(u, p, ok)
    \/ pc = "auth381" /\ \E r \in PlainReplies : AuthRead381(r)
    \/ pc = "authpass" /\ \E ok \in BOOLEAN : AuthSendPass(ok)
    \/ pc = "auth281" /\ \E r \in PlainReplies : AuthRead281(r)

Command(codes) ==
    \/ pc = "ready" /\ \E e \in ExpectCodes, ok \in BOOLEAN :
                           CommandSend(CmdText, e, ok)
    \/ pc = "command" /\ \E r \in Replies(codes, {OkText}) : CommandRead(r)

Post ==
    \/ pc = "ready" /\ \E a \in Articles, rfail, ok \in BOOLEAN :
                           PostSend(a, rfail, ok)
    \/ pc = "post340" /\ \E r \in PostReplies : PostRead340(r)
    \/ pc = "postcopy" /\ \E full, ok \in BOOLEAN : PostCopy(full, ok)
    \/ pc = "postclose" /\ \E ok \in BOOLEAN : PostClose(ok)
    \/ pc = "post240" /\ \E r \in PostReplies : PostRead240(r)

Group ==
    \/ pc = "ready" /\ \E n \in GroupNames, ok \in BOOLEAN : GroupSend(n, ok)
    \/ pc = "group211" /\ \E r \in Replies({211, 411}, GroupTexts) :
                              GroupRead211(r)

List ==
    \/ pc = "ready" /\ \E sub \in ListSubs, ok \in BOOLEAN : ListSend(sub, ok)
    \/ pc = "list215" /\ \E r \in PlainReplies : ListRead215(r)
    \/ pc = "listlines" /\ \E readOK \in BOOLEAN, b \in ListBlocks :
                               ListReadDotLines(readOK, b)

Article ==
    \/ pc = "ready" /\ \E m \in ArticleMethods, sp \in Specifiers,
                          ok \in BOOLEAN : ArticleSend(m, sp, ok)
    \/ pc = "articleish" /\ \E r \in ArticleReplies : ArticleRead(r)

\* a call of XOver; the model follows one stream at a time, so XOver is
\* called again only when the goroutine of the call before has returned
XOver(blocks) ==
    \/ pc = "ready" /\ prod.pc \in {"none", "done"}
           /\ \E sp \in Specifiers, z \in BOOLEAN, ok \in BOOLEAN :
                  XOverSendFmt(sp, z, ok)
    \/ pc = "xover215" /\ \E r \in XOverReplies : XOverRead215(r)
    \/ pc = "xoverfmt" /\ \E readOK \in BOOLEAN, b \in blocks :
                              XOverReadFmtLines(readOK, b)
    \/ pc = "xoversend" /\ \E ok \in BOOLEAN : XOverSendRange(ok)
    \/ pc = "xover224" /\ \E r \in XOverReplies : XOverRead224(r)

ProducerStep(chunks) ==
    \/ \E ok \in BOOLEAN : ProducerZlibInit(ok)
    \/ \E c \in chunks, st \in {"more", "end", "err"} : ProducerRead(c, st)
    \/ ProducerDecode
    \/ ProducerCrash
    \/ ProducerEnd
    \/ ProducerClose

Next ==
    \/ Session
    \/ Authenticate
    \/ Command(SomeCodes)
    \/ Post
    \/ Group
    \/ List
    \/ Article
    \/ XOver(FmtBlocks)
    \/ ProducerStep(Chunks)
    \/ Recv

Spec == Init /\ [][Next]_vars

NextSession == Session \/ Authenticate

SpecSession == Init /\ [][NextSession]_vars

\* every code a server can send, 100 to 599
AllCodes == 100..599

NextCommand == Session \/ Command(AllCodes)

SpecCommand == Init /\ [][NextCommand]_vars

NextPost == Session \/ Post

SpecPost == Init /\ [][NextPost]_vars

NextGroup == Session \/ Group

SpecGroup == Init /\ [][NextGroup]_vars

NextList == Session \/ List

SpecList == Init /\ [][NextList]_vars

NextArticle == Session \/ Article

SpecArticle == Init /\ [][NextArticle]_vars

Connect ==
    pc = "start" /\ \E d \in BOOLEAN, r \in Replies(SomeCodes, Greetings) :
                        New(d, r)

NextXOver == Connect \/ XOver(FmtBlocks) \/ ProducerStep(Chunks) \/ Recv

SpecXOver == Init /\ [][NextXOver]_vars

\* a few format blocks and chunks, for the runs in which the caller has
\* other operations next to the stream
SomeFmtBlocks == {<<>>, << <<"S", ":", "f", "u", "l", "l">> >>}

SomeChunks == {<<>>, << <<"1">> >>, << <<"3", "\t", "h">> >>}

\* the caller's operations next to a stream: XOver again, or a Command
CallerStep ==
    \/ XOver(SomeFmtBlocks)
    \/ pc = "ready" /\ \E ok \in BOOLEAN : CommandSend(CmdText, 200, ok)
    \/ pc = "command" /\ \E r \in Replies({200, 500}, {OkText}) :
                              CommandRead(r)

\* the caller begins an operation only when no channel of XOver is open
Disciplined == pc = "ready" => ch.state \in {"none", "closed"}

NextXOverOrdered ==
    Connect \/ (Disciplined /\ CallerStep) \/ ProducerStep(SomeChunks) \/ Recv

SpecXOverOrdered == Init /\ [][NextXOverOrdered]_vars

\* the caller begins operations whenever it likes
NextXOverAny == Connect \/ CallerStep \/ ProducerStep(SomeChunks) \/ Recv

SpecXOverAny == Init /\ [][NextXOverAny]_vars

NextDot ==
    \/ \E body \in Bodies, eol \in LineEnds, open \in BOOLEAN,
          start \in WriterStarts, rest \in AfterBlock :
           DotWrite(body, eol, open, start, rest)
    \/ DotRead

SpecDot == Init /\ [][NextDot]_vars

(***************************************************************************)
(* The properties.                                                         *)
(***************************************************************************)
\* reply is the single status line "code text"
Is(code, reply) == reply.kind = "status" /\ reply.code = code /\ ~reply.cont

\* the call of op has returned and no other call has begun
Returned(op) == pc = "ready" /\ ret.op = op

Last(s) == s[Len(s)]

InPost ==
    pc \in {"post340", "postcopy", "postclose", "post240"} \/ Returned("Post")

\* C1: when the status read after the POST line is not a 340 line, Post
\* returns an error at once and the POST line stays the last thing this call
\* wrote: no line of the article and no terminator is on the wire or in the
\* buffer.
C1_PostRefusedWritesNothing ==
    (InPost /\ Len(reads) >= 1 /\ ~Is(340, reads[1]))
        => /\ pc = "ready"
           /\ ret.err # "nil"
           /\ Len(reads) = 1
           /\ wire # <<>>
           /\ Last(wire) = Cmd("POST", NoText)
           /\ buf = <<>>

\* a Post of a non-empty article that the server answered with 440
C1_Witness ==
    /\ Returned("Post")
    /\ Len(reads) = 1
    /\ reads[1].kind = "status" /\ reads[1].code = 440
    /\ Len(src) > 0

\* io.Copy has failed in this call of Post: the reader ended with its error,
\* or a flush of the lines of the article failed
CopyFailed ==
    /\ Len(reads) >= 1
    /\ Is(340, reads[1])
    /\ \/ pc # "postcopy" /\ arg.n = 1 /\ src = <<>>
       \/ werr /\ buf # <<>> /\ Last(buf).k = "data"

\* C2: when copying the article fails, Post returns the error without
\* writing the terminator and without a second status read.
C2_CopyFailureSkipsFinalRead ==
    (InPost /\ CopyFailed)
        => /\ pc = "ready"
           /\ ret.err = "io"
           /\ Len(reads) = 1
           /\ \A i \in 1..Len(wire) : wire[i] # Term
           /\ \A i \in 1..Len(buf) : buf[i] # Term

\* a Post whose copy failed after a line of the article was on the wire
C2_Witness ==
    /\ Returned("Post")
    /\ CopyFailed
    /\ \E i \in 1..Len(wire) : wire[i].k = "data"

\* C3: Post reports success only if the POST line was sent, 340 was read, the
\* article and its terminator were sent, and 240 was read after that.
C3_PostSuccessMeansTerminatorSent ==
    (Returned("Post") /\ ret.err = "nil")
        => /\ Len(reads) = 2
           /\ Is(340, reads[1])
           /\ Is(240, reads[2])
           /\ \E i \in 1..Len(wire) : wire[i] = Cmd("POST", NoText)
           /\ wire # <<>> /\ Last(wire) = Term
           /\ buf = <<>>
           /\ ~werr

InAuthenticate ==
    pc \in {"auth381", "authpass", "auth281"} \/ Returned("Authenticate")

\* the places of the lines of verb that this call put on the wire
SentAt(verb) == {i \in 1..Len(wire) : wire[i].v = verb}

\* C4: Authenticate sends each of its two lines at most once, the password
\* line only after the user line and after a 381 line was read, and it
\* succeeds only when a 381 line and then a 281 line were read.
C4_AuthenticateOrder ==
    InAuthenticate
        => /\ Cardinality(SentAt("authinfo user")) <= 1
           /\ Cardinality(SentAt("authinfo pass")) <= 1
           /\ Len(reads) <= 2
           /\ SentAt("authinfo pass") # {}
                  => /\ \E i \in SentAt("authinfo user") :
                            \A j \in SentAt("authinfo pass") : i < j
                     /\ Len(reads) >= 1
                     /\ Is(381, reads[1])
           /\ (Returned("Authenticate") /\ ret.err = "nil")
                  => /\ Len(reads) = 2
                     /\ Is(381, reads[1])
                     /\ Is(281, reads[2])
                     /\ SentAt("authinfo pass") # {}

\* an Authenticate that failed on the status of the user line
C4_Witness ==
    /\ Returned("Authenticate")
    /\ Len(reads) = 1
    /\ reads[1].kind = "status" /\ reads[1].code = 502
    /\ ret.err = "status"

\* C5: New succeeds on a greeting exactly when its code is in 200..299, and
\* then the text of the greeting is the banner.
C5_NewAcceptsClass2 ==
    (ret.op = "New" /\ Len(reads) = 1 /\ reads[1].kind = "status"
                    /\ ~reads[1].cont)
        => /\ (ret.err = "nil") <=> (reads[1].code \in 200..299)
           /\ ret.err = "nil" => (pc = "ready" /\ Banner = reads[1].msg)

\* what the documentation of Command promises of expectCode
Accepts(expectCode, code) ==
    \/ expectCode = -1
    \/ /\ expectCode \in 1..9
       /\ expectCode * 100 <= code
       /\ code < expectCode * 100 + 100
    \/ expectCode \in 100..999 /\ code = expectCode

\* C6: for a status line with a code in 100..599, Command with expectCode -1,
\* a digit or a 3-digit code returns no error exactly when the code matches:
\* always for -1, the same first digit for a digit, the same code for a code.
C6_CommandValidatesStatus ==
    (Returned("Command") /\ Len(reads) = 1 /\ reads[1].kind = "status"
                         /\ ~reads[1].cont
                         /\ arg.n \in {-1} \cup 1..9 \cup 100..999)
        => /\ (ret.err = "nil") <=> Accepts(arg.n, reads[1].code)
           /\ ret.err \in {"nil", "status"}

\* Command(cmd, 2) that took the last code of class 2
C6_Witness ==
    /\ Returned("Command")
    /\ arg.n = 2
    /\ Len(reads) = 1 /\ Is(299, reads[1])
    /\ ret.err = "nil"

\* the number of fields of text between single spaces
Fields(text) == Cardinality({i \in 1..Len(text) : text[i] = " "}) + 1

\* Group has read the single status line "211 text"
GroupGot211 == ret.op = "Group" /\ Len(reads) = 1 /\ Is(211, reads[1])

\* C7: for a 211 text of fewer or more than 4 fields Group returns an error;
\* it does not succeed and does not crash.
C7_GroupRefusesWrongFieldCount ==
    (GroupGot211 /\ Fields(reads[1].msg) # 4)
        => (pc = "ready" /\ ret.err # "nil")

\* the fields of the model that are integers, and their values
IntFields == {<<"1">>, <<"1", "0">>, <<"-", "3">>}

IntOf(f) ==
    CASE f = <<"1">> -> 1
      [] f = <<"1", "0">> -> 10
      [] f = <<"-", "3">> -> 0 - 3

\* C8: for a 211 text "count low high name" Group returns the group with
\* Count, Low, High and Name of the four fields in that order when the first
\* three are integers, and an error when one of them is not.
C8_GroupParsesFourFields ==
    (GroupGot211 /\ Fields(reads[1].msg) = 4)
        => \A fs \in [1..4 -> GroupFields] :
               reads[1].msg = Join(fs, " ")
                   => IF \A i \in 1..3 : fs[i] \in IntFields
                      THEN /\ pc = "ready"
                           /\ ret.err = "nil"
                           /\ ret.rv = <<NewGroup(fs[4], IntOf(fs[1]),
                                                  IntOf(fs[3]), IntOf(fs[2]),
                                                  "Unknown")>>
                      ELSE pc = "ready" /\ ret.err # "nil"

\* Group on "211 10 1 10 g"
C8_Witness ==
    /\ Returned("Group")
    /\ GroupGot211
    /\ ret.err = "nil"
    /\ ret.rv = <<NewGroup(<<"g">>, 10, 10, 1, "Unknown")>>

\* List has read a 215 line and the whole block after it, whose lines are src
ListGotBlock ==
    /\ ret.op = "List"
    /\ Len(reads) = 1
    /\ Is(215, reads[1])
    /\ ret.err # "io"

\* the high and low fields of line are there and are integers
Parsable(line) ==
    LET parts == Split(line, " ")
    IN  Len(parts) >= 3 /\ ParseInt(parts[2]).ok /\ ParseInt(parts[3]).ok

\* C9: for any block after a 215 line List returns without error and
\* without crashing, with one group for each line whose high and low are
\* integers.
C9_ListSkipsMalformedLines ==
    ListGotBlock
        => /\ pc = "ready"
           /\ ret.err = "nil"
           /\ Len(ret.rv) = Cardinality({i \in 1..Len(src) : Parsable(src[i])})

\* the lines of the model of the form "name high low flag", with their numbers
ListTable ==
    { [line |-> <<"a", " ", "2", " ", "1", " ", "y">>, high |-> 2, low |-> 1],
      [line |-> <<"b", " ", "0", " ", "1", " ", "m">>, high |-> 0, low |-> 1],
      [line |-> <<".", "j", " ", "3", " ", "3", " ", "q">>,
       high |-> 3, low |-> 3] }

WellFormed(line) == \E t \in ListTable : t.line = line

Entry(line) == CHOOSE t \in ListTable : t.line = line

\* C10 as claimed: for a block of lines "name high low flag" with integer
\* high and low, every group List returns has High >= Low.
C10_ListHighAtLeastLow ==
    (ListGotBlock /\ \A i \in 1..Len(src) : WellFormed(src[i]))
        => \A i \in 1..Len(ret.rv) : ret.rv[i].High >= ret.rv[i].Low

\* C10 as amended: for such a block List returns one group per line, in the
\* order of the lines, with the High and Low of its line, so that High >= Low
\* holds of a group exactly when it holds of its line.
C10_ListKeepsHighAndLow ==
    (ListGotBlock /\ \A i \in 1..Len(src) : WellFormed(src[i]))
        => /\ pc = "ready"
           /\ ret.err = "nil"
           /\ Len(ret.rv) = Len(src)
           /\ \A i \in 1..Len(src) :
                  /\ ret.rv[i].High = Entry(src[i]).high
                  /\ ret.rv[i].Low = Entry(src[i]).low
                  /\ (ret.rv[i].High >= ret.rv[i].Low)
                         <=> (Entry(src[i]).high >= Entry(src[i]).low)

\* a List that returned the empty group of the line "b 0 1 m"
C10_Witness ==
    /\ Returned("List")
    /\ ret.err = "nil"
    /\ Len(ret.rv) >= 1
    /\ ret.rv[1].High = 0 /\ ret.rv[1].Low = 1

\* Article, Head or Body has read the single status line it expects
ArticleGotStatus ==
    /\ ret.op \in {"Article", "Head", "Body"}
    /\ Len(reads) = 1
    /\ Is(arg.n, reads[1])
    /\ MethodOf(arg.n).op = ret.op

\* C11: after the expected status Article, Head and Body return an error for
\* a text without a space and for a text whose first part is no integer, and
\* for a text "number rest" they return the number and the rest; they do not
\* crash.
C11_ArticleParsesStatusText ==
    ArticleGotStatus
        => LET msg == reads[1].msg
           IN  /\ (\A i \in 1..Len(msg) : msg[i] # " ")
                      => (pc = "ready" /\ ret.err # "nil")
               /\ \A f \in GroupFields :
                      (Len(msg) > Len(f) /\ SubSeq(msg, 1, Len(f) + 1) = f \o <<" ">>)
                          => IF f \in IntFields
                             THEN /\ pc = "ready"
                                  /\ ret.err = "nil"
                                  /\ ret.rv = <<IntOf(f)>>
                                  /\ ret.msg = SubSeq(msg, Len(f) + 2, Len(msg))
                             ELSE pc = "ready" /\ ret.err # "nil"

\* the record of the k-th line the goroutine has read from the server
Record(k) == Overview(Decode(headers, headerFull, served[k]).hdrs, "nil")

\* C12: the items received on the channel of XOver are the records of the
\* server's lines in server order, one per line from the first line on; an
\* item with an error is the last item, the goroutine closes the channel
\* right after it, and nothing is received on a closed channel.
C12_OverviewStreamInOrder ==
    /\ [](ch.state # "none"
            => /\ \A k \in 1..Len(ch.recv) :
                      IF ch.recv[k].Err = "nil"
                      THEN k <= Len(served) /\ ch.recv[k] = Record(k)
                      ELSE /\ k = Len(ch.recv)
                           /\ ch.recv[k].Headers = NoHeaders
                           /\ prod.pc \in {"closing", "done"}
               /\ prod.pc = "done" => ch.state = "closed"
               /\ ch.state = "closed" => prod.pc \in {"done", "panicking", "dead"})
    /\ [][(ch.state = "closed" /\ ch'.state = "closed")
              => ch'.recv = ch.recv]_vars

\* two records and then the error of a failed read have been received, and
\* the end of the channel has been seen
C12_Witness ==
    /\ Len(ch.recv) = 3
    /\ ch.recv[1].Err = "nil" /\ ch.recv[2].Err = "nil"
    /\ ch.recv[1] # ch.recv[2]
    /\ ch.recv[3].Err = "read"
    /\ ch.eof

\* the goroutine has panicked on the k-th line it read
AbortedOn(k) ==
    /\ prod.pc \in {"panicking", "dead"}
    /\ k = Len(served) - Len(prod.sbuf) + 1

NumFields(l) == Len(Split(l, "\t"))

\* C13: a line with more tab-separated fields than columns, or with fewer,
\* does not abort the stream.
C13_MalformedLineKeepsStream ==
    \A k \in 1..Len(served) :
        NumFields(served[k]) # Len(headers) => ~AbortedOn(k)

\* the i-th column is flagged "full" by its line of the format block
FullColumn(i) ==
    /\ i >= 2
    /\ \E j \in 1..Len(src[i]) :
           /\ src[i][j] = ":"
           /\ SubSeq(src[i], j + 1, Len(src[i])) = FullFlag
           /\ \A n \in 1..(j - 1) : src[i][n] # ":"

\* the field f without everything up to and including its first ":"
StripPrefix(f) ==
    IF \A j \in 1..Len(f) : f[j] # ":" THEN f
    ELSE LET j == CHOOSE n \in 1..Len(f) :
                      f[n] = ":" /\ \A m \in 1..(n - 1) : f[m] # ":"
         IN  SubSeq(f, j + 1, Len(f))

\* C14: a line with exactly as many fields as columns is decoded, and its
\* record gives under the i-th column name the i-th field, without its prefix
\* up to the first ":" when the column is flagged "full" and unchanged
\* otherwise.
C14_RecordMapsColumnsToFields ==
    \A k \in 1..Len(served) :
        NumFields(served[k]) = Len(headers)
            => /\ ~AbortedOn(k)
               /\ (k <= Len(ch.recv) /\ ch.recv[k].Err = "nil")
                      => \A i \in 1..Len(headers) :
                             LET f == Split(served[k], "\t")[i]
                             IN  <<Canon(headers[i]),
                                   IF FullColumn(i) THEN StripPrefix(f) ELSE f>>
                                     \in ch.recv[k].Headers

\* the number of records received
NumRecords == Cardinality({k \in 1..Len(ch.recv) : ch.recv[k].Err = "nil"})

\* C15: the goroutine builds the record of a line only after the record of
\* the line before has been received, and while it waits at a send nothing
\* but a receive moves it: it reads no line and does not close the channel.
C15_ProducerBlocksOnPublish ==
    /\ [](ch.state # "none"
            => NumRecords = Len(served) - Len(prod.sbuf)
                                - (IF prod.pc = "send" THEN 1 ELSE 0))
    /\ [][(prod.pc \in {"send", "senderr"} /\ ch'.recv = ch.recv)
              => (prod' = prod /\ ch' = ch /\ served' = served)]_vars

\* the goroutine waits with the second record while the server has more
C15_Witness ==
    /\ prod.pc = "send"
    /\ prod.st = "more"
    /\ Len(ch.recv) = 1
    /\ ch.state = "open"

\* C16: after a successful XOver the goroutine comes to its end and the
\* channel is closed, once, and the receiver sees its end.  Stated on finite
\* runs: until the receiver has seen the end of the channel the goroutine or
\* the receiver can take a step, the goroutine does not die on the way, the
\* channel is closed at most once, and when the receiver sees the end the
\* goroutine has returned and has closed the channel exactly once.
C16_StreamTerminates ==
    ch.state # "none"
        => /\ prod.pc \notin {"panicking", "dead"}
           /\ ch.closes <= 1
           /\ ch.eof => (prod.pc = "done" /\ ch.closes = 1)
           /\ ~ch.eof => ENABLED (ProducerStep(Chunks) \/ Recv)

RECURSIVE Stuffed(_)
\* the lines of a body as the claim has them on the wire: a line that begins
\* with "." has its dot doubled, every line ends with CR LF
Stuffed(ls) ==
    IF Len(ls) = 0 THEN NoText
    ELSE (IF Len(Head(ls)) > 0 /\ Head(ls)[1] = "."
          THEN <<".">> \o Head(ls) ELSE Head(ls)) \o CRLF \o Stuffed(Tail(ls))

\* the lines of what the reader has returned
LinesOf(bytes) ==
    IF Len(bytes) = 0 THEN <<>>
    ELSE LET p == Split(bytes, "\n")
         IN  IF Len(p[Len(p)]) = 0 THEN SubSeq(p, 1, Len(p) - 1) ELSE p

\* the block on the wire is the stuffed lines and the terminator, and the
\* reader returns the lines of the body and leaves what follows the block
RoundTrip ==
    /\ dot.pc = "written"
           => dot.bytes = Stuffed(dot.body) \o <<".">> \o CRLF \o dot.rest
    /\ dot.pc = "read"
           => /\ LinesOf(dot.out) = dot.body
              /\ dot.out = BytesOf(dot.body, <<"\n">>, FALSE)
              /\ dot.bytes = dot.rest

\* C17 as stated: every body, the body of no lines included, comes back as
\* it was written, with the dots of its lines doubled on the wire and
\* nothing after the terminator taken.
C17_DotBlockRoundTrip == RoundTrip

\* C17 amended: the same for every body of at least one line.
C17_DotBlockRoundTripOfLines == Len(dot.body) > 0 => RoundTrip

\* a body of a line "." and a line ".a" has been written and read back, with
\* a byte of the next response behind it
C17_Witness ==
    /\ dot.pc = "read"
    /\ dot.body = << <<".">>, <<".", "a">> >>
    /\ dot.rest = <<"2">>
    /\ dot.out = <<".", "\n", ".", "a", "\n">>

\* a call of XOver is under way, or is the last call that returned
InXOver ==
    \/ pc \in {"xover215", "xoverfmt", "xoversend", "xover224"}
    \/ ret.op = "XOver"

\* the places of the range command on the wire
RangeAt == {i \in 1..Len(wire) : wire[i].v \in {"XOVER", "XZVER"}}

\* the format block has been read to its end and made into columns
FormatRead ==
    /\ Len(src) >= 1
    /\ Len(headers) = Len(src)
    /\ \A i \in 2..Len(src) : headers[i] = SplitN2(src[i], ":")[1]

\* C18: XOver sends LIST OVERVIEW.FMT first; the range command, XZVER when
\* compress is true and XOVER otherwise, only after a 215 and the whole format
\* block; it starts the goroutine only after a 224.  When a status is not the
\* expected one it returns an error, with no channel, no goroutine and no
\* later command; when it succeeds it has started exactly one goroutine.
C18_XOverPhases ==
    InXOver
        => /\ Len(wire) >= 1 => wire[1] = Cmd("LIST OVERVIEW.FMT", NoText)
           /\ \A i \in RangeAt :
                  /\ i = 2
                  /\ Len(reads) >= 1 /\ Is(215, reads[1])
                  /\ FormatRead
                  /\ wire[i] = Cmd(IF arg.n = 1 THEN "XZVER" ELSE "XOVER", arg.s)
           /\ (ch.state # "none" \/ prod.pc # "none" \/ ch.made > 0)
                  => /\ RangeAt = {2}
                     /\ Len(reads) = 2 /\ Is(224, reads[2])
                     /\ ret.op = "XOver" /\ ret.err = "nil"
           /\ (Len(reads) >= 1 /\ ~Is(215, reads[1]))
                  => /\ Returned("XOver") /\ ret.err # "nil"
                     /\ Len(reads) = 1 /\ RangeAt = {}
           /\ (Len(reads) >= 2 /\ ~Is(224, reads[2]))
                  => /\ Returned("XOver") /\ ret.err # "nil"
                     /\ Len(reads) = 2
           /\ (ret.op = "XOver" /\ ret.err # "nil")
                  => ch = NoChan /\ prod = NoProducer
           /\ (ret.op = "XOver" /\ ret.err = "nil")
                  => ch.made = 1 /\ ch.state # "none" /\ prod.pc # "none"

\* XOver with compress has returned its channel
C18_Witness ==
    /\ Returned("XOver")
    /\ ret.err = "nil"
    /\ wire = <<Cmd("LIST OVERVIEW.FMT", NoText), Cmd("XZVER", arg.s)>>
    /\ ch.made = 1
    /\ prod.pc = "zinit"

\* XOver has made its columns from the lines MultilineCommand returned
FormatParsed ==
    \/ pc \in {"xoversend", "xover224"}
    \/ ret.op = "XOver" /\ ret.line \in {204, 207, 246}

\* the name of a line "name:flag"
NameOf(l) ==
    LET j == CHOOSE n \in 1..Len(l) : l[n] = ":" /\ \A m \in 1..(n - 1) : l[m] # ":"
    IN  SubSeq(l, 1, j - 1)

\* the columns XOver uses are "Article" and then the names of the lines ls,
\* and a name counts as full exactly when the flag of the last line with
\* that name is "full"
ColumnsAre(ls) ==
    /\ headers = <<ArticleCol>> \o [i \in 1..Len(ls) |-> NameOf(ls[i])]
    /\ \A i \in 1..Len(ls) :
           (\A j \in (i + 1)..Len(ls) : NameOf(ls[j]) # NameOf(ls[i]))
               => (NameOf(ls[i]) \in headerFull <=> StripPrefix(ls[i]) = FullFlag)
    /\ \A h \in headerFull : \E i \in 1..Len(ls) : NameOf(ls[i]) = h

\* C19 as stated: the first line of the block the server returns is
\* discarded and the columns come from the lines after it.
C19_FirstBlockLineDiscarded ==
    FormatParsed => ColumnsAre(SubSeq(src, 3, Len(src)))

\* C19 amended: the line XOver discards is the text of the 215 status line;
\* every line of the block becomes a column, in server order.
C19_EveryBlockLineIsAColumn ==
    FormatParsed => ColumnsAre(SubSeq(src, 2, Len(src)))

\* the block "S:full", "b:" has given the columns Article, S (full), b
C19_Witness ==
    /\ FormatParsed
    /\ src = <<OkText, <<"S", ":", "f", "u", "l", "l">>, <<"b", ":">> >>
    /\ headers = <<ArticleCol, <<"S">>, <<"b">> >>
    /\ headerFull = {<<"S">>}

\* the caller is in a read of the connection
CallerReads == pc \in {"command", "xover215", "xoverfmt", "xover224"}

\* the goroutine is in a read of the connection: in zlib.NewReader, or in a
\* scanner.Scan() that has no line left in its buffer
ProducerReads ==
    \/ prod.pc = "zinit"
    \/ prod.pc = "scan" /\ prod.sbuf = <<>> /\ prod.st = "more"

\* C20: when the caller begins an operation only after the channel of the
\* XOver before has been closed, the caller and the goroutine never read the
\* connection at the same time, and the goroutine reads nothing once it has
\* closed the channel.
C20_SingleReader ==
    /\ ~(CallerReads /\ ProducerReads)
    /\ ch.state = "closed" => ~ProducerReads

\* the caller reads the reply to a Command sent after a stream of one record
\* has been closed
C20_Witness ==
    /\ pc = "command"
    /\ ch.state = "closed"
    /\ prod.pc = "done"
    /\ Len(ch.recv) = 1

\* the caller and the goroutine are both in a read of the connection; a
\* state of SpecXOverAny, where the caller keeps no discipline
TwoReaders == CallerReads /\ ProducerReads

====
